---------------------------- MODULE Spec2Model ----------------------------
(***************************************************************************)
(* Model of the documentation retrieval core of slingr-mcp:                *)
(*   src/src/rag.ts        RAGSystem (initialize, isReady, search, ingest) *)
(*   src/unnamed/part_001  the server entry point (main, CallTool handler) *)
(*   src/unnamed/part_002  the tools search_documentation,                 *)
(*                         ingest_documentation, update_entity_permissions *)
(*   src/scripts/ingest-docs.ts  the standalone ingestion script           *)
(* Texts are sequences of characters, so that the chunking expression of   *)
(* ingest() is computed character by character.  A character is a string:  *)
(* the character itself, or, for the white space that cannot be written in *)
(* a string here, the name of its code point ("U+00A0").                   *)
(***************************************************************************)
EXTENDS Integers, Sequences, FiniteSets, TLC

(***************************************************************************)
(* Bounds of the exploration.                                              *)
(***************************************************************************)
MaxIngests == 2
MaxSearches == 1
MaxEdits == 1
MaxUpdates == 3

(***************************************************************************)
(* Program constants.                                                      *)
(***************************************************************************)
MinChunkLength == 50
DefaultLimit == 3
ScriptMinChunkLength == 50

(***************************************************************************)
(* Characters and strings.                                                 *)
(***************************************************************************)
\* LineTerminator of ECMAScript: the characters after which ^ matches under
\* the m flag: LF, CR, LINE SEPARATOR, PARAGRAPH SEPARATOR.
IsLineTerminator(c) == c \in {"\n", "\r", "U+2028", "U+2029"}

\* The characters the regular expression class \s matches and String.trim()
\* strips: WhiteSpace (TAB, VT, FF, SP, NBSP, ZWNBSP and the space separators
\* of Unicode) and LineTerminator.
IsSpace(c) ==
    \/ c \in {"\t", "U+000B", "\f", " ", "U+00A0", "U+FEFF",
              "U+1680", "U+2000", "U+2001", "U+2002", "U+2003", "U+2004", "U+2005",
              "U+2006", "U+2007", "U+2008", "U+2009", "U+200A", "U+202F", "U+205F",
              "U+3000"}
    \/ IsLineTerminator(c)

Rep(c, n) == [i \in 1..n |-> c]

\* Number of consecutive '#' of S starting at position q.
RECURSIVE HashRun(_, _)
HashRun(S, q) ==
    IF q <= Len(S) /\ S[q] = "#" THEN 1 + HashRun(S, q + 1) ELSE 0

\* /^#+\s/m tried at position q only (sticky): the position after the match,
\* or 0 when it does not match there.
MatchEnd(S, q) ==
    LET k == HashRun(S, q) IN
    IF /\ (q = 1 \/ IsLineTerminator(S[q - 1]))
       /\ k >= 1
       /\ q + k <= Len(S)
       /\ IsSpace(S[q + k])
    THEN q + k + 1
    ELSE 0

\* The positions at which the pattern matches.  A match covers a run of '#'
\* and one space character, so no match starts inside another and the matches
\* split() finds, scanning from the end of the previous one, are all of them.
Matches(S) == {q \in 1..Len(S) : MatchEnd(S, q) # 0}

\* The k-th smallest element of a set of positions.
Kth(M, k) == CHOOSE m \in M : Cardinality({y \in M : y < m}) = k - 1

\* String.prototype.split with that pattern: the pieces before, between and
\* after the matches (n matches give n + 1 pieces, possibly empty).
Split(S) ==
    LET M == Matches(S)
        n == Cardinality(M)
    IN [k \in 1..(n + 1) |->
          SubSeq(S,
                 IF k = 1 THEN 1 ELSE MatchEnd(S, Kth(M, k - 1)),
                 IF k = n + 1 THEN Len(S) ELSE Kth(M, k) - 1)]

\* Variant: the fragments are not trimmed.
NoTrim(s) == s

\* String.prototype.trim
Trim(s) ==
    LET keep == {i \in 1..Len(s) : ~IsSpace(s[i])} IN
    IF keep = {} THEN << >>
    ELSE LET lo == CHOOSE i \in keep : \A j \in keep : i <= j
             hi == CHOOSE i \in keep : \A j \in keep : j <= i
         IN SubSeq(s, lo, hi)

MapTrim(pieces) == [i \in 1..Len(pieces) |-> Trim(pieces[i])]

\* Variant: a fragment of exactly the minimum length is kept.
LongEnoughOrEqual(c) == Len(c) >= MinChunkLength

\* Variant: the filter drops the empty fragments only.
LongEnoughNonEmpty(c) == Len(c) > 0

LongEnough(c) == Len(c) > MinChunkLength

\* content.split(/^#+\s/gm).map(c => c.trim()).filter(c => c.length > 50)
Chunks(content) == SelectSeq(MapTrim(Split(content)), LongEnough)

(***************************************************************************)
(* The embedding model and the vector store are external libraries.  The   *)
(* embedder is a deterministic function of the text (an abstract one-      *)
(* component vector); the store ranks rows by ascending distance and, on   *)
(* ties, by storage order.                                                 *)
(***************************************************************************)
\* this.embedder(text, { pooling: 'mean', normalize: true }) -> Array.from(output.data)
Embed(text) == << Len(text) >>

Distance(u, v) == (u[1] - v[1]) * (u[1] - v[1])

Remove(rows, i) == SubSeq(rows, 1, i - 1) \o SubSeq(rows, i + 1, Len(rows))

\* results.map(r => ({ text: r.text, source: r.source, score: r._distance }))
SearchResult(r, qv) ==
    [text |-> r.text, source |-> r.source, score |-> Distance(r.vector, qv)]

\* The n nearest rows to qv, nearest first, as search results.
RECURSIVE Nearest(_, _, _)
Nearest(rows, qv, limit) ==
    IF limit <= 0 \/ rows = << >> THEN << >>
    ELSE LET i == CHOOSE i \in 1..Len(rows) :
                    \A j \in 1..Len(rows) :
                        \/ Distance(rows[i].vector, qv) < Distance(rows[j].vector, qv)
                        \/ /\ Distance(rows[i].vector, qv) = Distance(rows[j].vector, qv)
                           /\ i <= j
         IN << SearchResult(rows[i], qv) >> \o Nearest(Remove(rows, i), qv, limit - 1)

\* Variant: the limit is not passed to the store.
VectorSearchUnlimited(rows, qv, limit) == Nearest(rows, qv, Len(rows))

\* Variant: the rows carry the name of the directory, not of the file.
FileRowsOfDocs(file, content) ==
    LET chunks == SelectSeq(MapTrim(Split(content)), LongEnough) IN
    [k \in 1..Len(chunks) |->
        [vector |-> Embed(chunks[k]), text |-> chunks[k], source |-> "docs"]]

\* The rows one search returns: the limit nearest, nearest first.
VectorSearch(rows, qv, limit) == Nearest(rows, qv, limit)

(***************************************************************************)
(* The corpus: the markdown files under docs/, in the order glob returns   *)
(* them, each with its relative path and its content.                      *)
(***************************************************************************)
File(name, content) == [name |-> name, content |-> content]

\* "# <t>\n<b repeated n times>\n": a header line and a body of n characters.
Section(t, b, n) == << "#", " ", t, "\n" >> \o Rep(b, n) \o << "\n" >>

GuideMd ==
    << "#", " ", "S", "e", "t", "u", "p", "\n",
       "R", "u", "n", " ", "t", "h", "e", " ",
       "i", "n", "s", "t", "a", "l", "l", "e", "r", " ",
       "a", "n", "d", " ", "a", "c", "c", "e", "p", "t", " ",
       "d", "e", "f", "a", "u", "l", "t", "s", "." >>

NotesMd == << "#", " ", "X", "\n", "s", "h", "o", "r", "t" >>

ApiMd == Section("A", "a", MinChunkLength - 1) \o Section("B", "b", MinChunkLength + 2)

FaqMd ==
    Section("C", "c", MinChunkLength) \o << "#", "#", " ", "D", "\n", "s", "h", "o", "r", "t", "\n" >>
        \o Section("E", "e", MinChunkLength + 1)

NoFiles == << >>
Scenario == << File("guide.md", GuideMd), File("notes.md", NotesMd) >>
Small == << File("api.md", ApiMd) >>
Large == << File("api.md", ApiMd), File("sub/faq.md", FaqMd) >>

Corpora == {NoFiles, Scenario, Small, Large}

\* The edits of docs/ the exploration makes: each corpus is edited into the next.
Edited(c) ==
    CASE c = NoFiles -> Scenario
      [] c = Scenario -> Small
      [] c = Small -> Large
      [] c = Large -> NoFiles

Names(c) == [k \in 1..Len(c) |-> c[k].name]

HasFile(c, name) == \E k \in 1..Len(c) : c[k].name = name

\* fs.readFileSync(path.join(DOCS_DIR, file), 'utf-8') of an existing file
Content(c, name) == c[CHOOSE k \in 1..Len(c) : c[k].name = name].content

\* The rows the inner loop of ingest() pushes for one file.
FileRows(file, content) ==
    LET chunks == Chunks(content) IN
    [k \in 1..Len(chunks) |->
        [vector |-> Embed(chunks[k]), text |-> chunks[k], source |-> file]]

\* The rows a whole run accumulates over corpus c when nothing fails.
RECURSIVE RowsFrom(_, _)
RowsFrom(c, k) ==
    IF k > Len(c) THEN << >>
    ELSE FileRows(c[k].name, c[k].content) \o RowsFrom(c, k + 1)

RowsOf(c) == RowsFrom(c, 1)

Install == << "i", "n", "s", "t", "a", "l", "l" >>
Queries == {Install}
Limits == {-1, 0, 1, DefaultLimit}

(***************************************************************************)
(* State.  A step is what runs between two awaits: Node runs it to its end *)
(* before any other callback, and hands a settled call's result to its     *)
(* caller (Deliver) before the next I/O event is handled.                  *)
(***************************************************************************)
VARIABLES
    proc,         \* main: "starting" (awaiting loginToSlingr), "serving", "exited"
    logs,         \* the tags of the error lines written about initialize()
    corpus,       \* the files under docs/
    script,       \* a run of scripts/ingest-docs.ts in a process of its own
    perms,        \* the permissions of one entity in Slingr, and the calls of
                  \* update_entity_permissions
    table,        \* the 'documentation' table of the store: [exists, rows]
    db,           \* RAGSystem.db: 0 when unset, else the number of the connection
    embedder,     \* RAGSystem.embedder: 0 when unset, else the number of the load
    ready,        \* RAGSystem.ready
    initPc,       \* the await initialize() is suspended at, or "done" / "failed"
    ing,          \* the ingest() calls, by slot
    srch,         \* the search() calls, by slot
    connects,     \* history: lancedb.connect calls that resolved
    loads,        \* history: pipeline() calls that resolved
    ingested,     \* history: some ingest() has returned successfully
    lastRun,      \* history: the ingest() call that settled last, if it succeeded
    nIngests, nSearches, nEdits

vars == << proc, logs, corpus, script, perms, table, db, embedder, ready, initPc, ing, srch,
           connects, loads, ingested, lastRun, nIngests, nSearches, nEdits >>

IngestIds == {1}
SearchIds == {1}

NoTable == [exists |-> FALSE, rows |-> << >>]
TableOf(rows) == [exists |-> TRUE, rows |-> rows]

NoRun ==
    [result |-> "none", count |-> 0, fault |-> FALSE, globbed |-> NoFiles,
     editsAtCall |-> 0, rows |-> << >>]

IdleIngest ==
    [pc |-> "idle", files |-> << >>, idx |-> 1, pending |-> << >>, data |-> << >>,
     result |-> "none", count |-> 0,
     dropIssued |-> FALSE, createIssued |-> FALSE, dropped |-> FALSE,
     dropFailed |-> FALSE,
     fault |-> FALSE, scanned |-> FALSE, globbed |-> NoFiles, edits |-> 0,
     withScript |-> FALSE, prev |-> NoRun]

IdleSearch ==
    [pc |-> "idle", query |-> << >>, limit |-> 0, qv |-> << >>,
     result |-> "none", rows |-> << >>,
     early |-> "none", called |-> FALSE,
     embedded |-> FALSE, storage |-> FALSE,
     readyAtCall |-> FALSE, ingestedAtCall |-> FALSE,
     overlap |-> FALSE, overlapDrop |-> FALSE, indexSize |-> 0]

\* No update_entity_permissions call yet; stored is the permissions array of
\* the entity as Slingr holds it, shape the form of its responses.
IdleUpdate ==
    [pc |-> "idle", group |-> "none", updates |-> << >>, data |-> << >>,
     index |-> 0, payload |-> << >>, putSent |-> FALSE, result |-> "none",
     before |-> << >>, after |-> << >>]

UpdateIds == {1, 2}

IdlePerms ==
    [stored |-> << >>, shape |-> "array", calls |-> [k \in UpdateIds |-> IdleUpdate],
     nUpdates |-> 0]

\* The standalone script before it is started.  shared: it is started in the
\* working directory of the server, so that its DB_PATH is the store of the
\* server; otherwise it has a store of its own.  table is the 'documentation'
\* table of its store as its latest step left it, start as it was when the
\* script was started; overlap: an ingest() was running then.
IdleScript ==
    [pc |-> "idle", files |-> << >>, idx |-> 1, pending |-> << >>, data |-> << >>,
     result |-> "none", dropIssued |-> FALSE, createIssued |-> FALSE,
     fault |-> FALSE, shared |-> FALSE, overlap |-> FALSE,
     start |-> NoTable, table |-> NoTable]

ScriptInFlight == script.pc \notin {"idle", "done"}

IngestInFlight(i) == ing[i].pc \notin {"idle", "done"}
SearchInFlight(j) == srch[j].pc \notin {"idle", "done"}
AnyIngestInFlight == \E i \in DOMAIN ing : IngestInFlight(i)

\* An ingest() has removed an existing table and not yet returned.
AnyIngestDropped == \E i \in DOMAIN ing : IngestInFlight(i) /\ ing[i].dropped

\* A call has settled and its caller has not run yet.
Settled == (\E i \in DOMAIN ing : ing[i].pc = "done") \/ (\E j \in DOMAIN srch : srch[j].pc = "done")

\* docs/ starts with the two files of the scenario or with the two of Large;
\* EditCorpus makes the other corpora.
Init ==
    /\ proc = "starting"
    /\ logs = {}
    /\ corpus \in {Scenario, Large}
    /\ script = IdleScript
    /\ perms = IdlePerms
    /\ table \in {NoTable, TableOf(RowsOf(Small))}
    /\ db = 0
    /\ embedder = 0
    /\ ready = FALSE
    /\ initPc = "connect"
    /\ ing = [i \in IngestIds |-> IdleIngest]
    /\ srch = [j \in SearchIds |-> IdleSearch]
    /\ connects = 0
    /\ loads = 0
    /\ ingested = FALSE
    /\ lastRun = NoRun
    /\ nIngests = 0
    /\ nSearches = 0
    /\ nEdits = 0

\* The process runs and no settled call waits for its caller.
Alive == proc # "exited" /\ ~Settled

\* Requests reach the tools once main has connected the server.
Serving == proc = "serving" /\ ~Settled

(***************************************************************************)
(* main (part_001): login, and what becomes of a rejected initialize().    *)
(***************************************************************************)
\* Variant: the rejection of initialize() is not handled and ends the process.
ProcExits(p) == "exited"

\* ragSystem.initialize().catch(err => console.error(...)): the handler logs
\* and the process goes on as it was.
ProcAfterInitRejected(p) == p

LoginOk ==
    /\ Alive /\ proc = "starting"
    /\ proc' = "serving"
    /\ logs' = logs
    /\ UNCHANGED << corpus, script, perms, table, db, embedder, ready, initPc, ing, srch,
                    connects, loads, ingested, lastRun, nIngests, nSearches, nEdits >>

LoginFail ==
    /\ Alive /\ proc = "starting"
    /\ proc' = "exited"
    /\ logs' = logs
    /\ UNCHANGED << corpus, script, perms, table, db, embedder, ready, initPc, ing, srch,
                    connects, loads, ingested, lastRun, nIngests, nSearches, nEdits >>

(***************************************************************************)
(* RAGSystem.initialize                                                    *)
(***************************************************************************)
\* catch (e) { console.error("RAG Initialization Failed"); throw e } and main's
\* handler of the rejection.
InitFail ==
    /\ initPc' = "failed"
    /\ logs' = logs \cup {"InitFailed", "BackgroundInitFailed"}
    /\ proc' = ProcAfterInitRejected(proc)
    /\ UNCHANGED << corpus, script, perms, table, db, embedder, ready, ing, srch,
                    connects, loads, ingested, lastRun, nIngests, nSearches, nEdits >>

InitConnect ==
    /\ Alive /\ initPc = "connect"
    /\ \/ /\ db' = connects + 1
          /\ connects' = connects + 1
          /\ initPc' = "pipeline"
          /\ UNCHANGED << proc, logs, corpus, script, perms, table, embedder, ready, ing, srch,
                          loads, ingested, lastRun, nIngests, nSearches, nEdits >>
       \/ InitFail

InitPipeline ==
    /\ Alive /\ initPc = "pipeline"
    /\ \/ /\ embedder' = loads + 1
          /\ loads' = loads + 1
          /\ initPc' = "tableNames"
          /\ UNCHANGED << proc, logs, corpus, script, perms, table, db, ready, ing, srch,
                          connects, ingested, lastRun, nIngests, nSearches, nEdits >>
       \/ InitFail

\* Variant: this.ready = tableNames.includes('documentation')
InitReadyFromTable(r, t) == t.exists

\* if (tableNames.includes('documentation')) { this.ready = true }
InitReady(r, t) == IF t.exists THEN TRUE ELSE r

InitTableNames ==
    /\ Alive /\ initPc = "tableNames"
    /\ \/ /\ ready' = InitReady(ready, table)
          /\ logs' = logs
          /\ initPc' = "done"
          /\ UNCHANGED << proc, corpus, script, perms, table, db, embedder, ing, srch,
                          connects, loads, ingested, lastRun, nIngests, nSearches, nEdits >>
       \/ InitFail

(***************************************************************************)
(* RAGSystem.ingest                                                        *)
(***************************************************************************)
\* What a settled call leaves in the history; t is the table it leaves.
Summary(rec, t) ==
    [result |-> rec.result, count |-> rec.count, fault |-> rec.fault,
     globbed |-> rec.globbed, editsAtCall |-> rec.edits, rows |-> t.rows]

\* The call in slot i goes on as rec, the table being t after the step.
SetIngest(i, rec, t) ==
    /\ ing' = [ing EXCEPT ![i] = rec]
    /\ lastRun' = IF rec.pc # "done" THEN lastRun
                  ELSE IF rec.result = "ok" THEN Summary(rec, t) ELSE NoRun
    /\ ingested' = (ingested \/ (rec.pc = "done" /\ rec.result = "ok"))

\* Variant: a failure is recorded and the call goes on.
Continue(rec, err, isFault) == [rec EXCEPT !.result = err, !.fault = TRUE]

\* A throw out of ingest(): isFault tells an environment failure (I/O, model)
\* from a failure the program's own state causes.
Throw(rec, err, isFault) ==
    [rec EXCEPT !.pc = "done", !.result = err, !.fault = rec.fault \/ isFault]

\* Variant: ingest() does not load the model when it is not set.
PcWithoutLoad(e) == "glob"

\* if (!this.embedder) { this.embedder = await pipeline(...) }
PcAtEmbedderCheck(e) == IF e = 0 THEN "load" ELSE "glob"

\* if (!this.db) { this.db = await lancedb.connect(DB_PATH) }
PcAtDbCheck(d, e) == IF d = 0 THEN "connect" ELSE PcAtEmbedderCheck(e)

\* Variant: the no-content check is missing.
NoContentNever(data) == FALSE

\* if (data.length === 0) throw new Error('No content found to ingest...')
NoContent(data) == Len(data) = 0

\* After the loop over the files: the no-content check, and dropTable is called.
AfterLoop(rec) ==
    IF NoContent(rec.data)
    THEN Throw([rec EXCEPT !.scanned = TRUE], "NoContent", FALSE)
    ELSE [rec EXCEPT !.pc = "drop", !.dropIssued = TRUE, !.scanned = TRUE]

\* The loop over the files from files[k] on, up to its next await: files are
\* read and chunked until one has a chunk, and the embedder is called with
\* its first chunk.
RECURSIVE Scan(_, _, _)
Scan(rec, c, k) ==
    IF k > Len(rec.files) THEN AfterLoop(rec)
    ELSE IF ~HasFile(c, rec.files[k]) THEN Throw(rec, "ReadError", TRUE)
    ELSE LET rows == FileRows(rec.files[k], Content(c, rec.files[k])) IN
         IF rows = << >> THEN Scan(rec, c, k + 1)
         ELSE [rec EXCEPT !.pc = "embed", !.idx = k, !.pending = rows]

IngestCall(i) ==
    /\ Serving /\ ing[i].pc = "idle"
    /\ nIngests < MaxIngests
    /\ nIngests' = nIngests + 1
    /\ ing' = [ing EXCEPT ![i] =
                  [IdleIngest EXCEPT !.pc = PcAtDbCheck(db, embedder), !.edits = nEdits,
                                     !.withScript = ScriptInFlight, !.prev = lastRun]]
    /\ srch' = [j \in SearchIds |->
                  IF SearchInFlight(j) THEN [srch[j] EXCEPT !.overlap = TRUE] ELSE srch[j]]
    /\ UNCHANGED << proc, logs, corpus, script, perms, table, db, embedder, ready, initPc,
                    connects, loads, ingested, lastRun, nSearches, nEdits >>

IngestConnect(i) ==
    /\ Alive /\ ing[i].pc = "connect"
    /\ \/ /\ db' = connects + 1
          /\ connects' = connects + 1
          /\ SetIngest(i, [ing[i] EXCEPT !.pc = PcAtEmbedderCheck(embedder)], table)
       \/ /\ SetIngest(i, Throw(ing[i], "StorageError", TRUE), table)
          /\ UNCHANGED << db, connects >>
    /\ UNCHANGED << proc, logs, corpus, script, perms, table, embedder, ready, initPc, srch,
                    loads, nIngests, nSearches, nEdits >>

IngestLoad(i) ==
    /\ Alive /\ ing[i].pc = "load"
    /\ \/ /\ embedder' = loads + 1
          /\ loads' = loads + 1
          /\ SetIngest(i, [ing[i] EXCEPT !.pc = "glob"], table)
       \/ /\ SetIngest(i, Throw(ing[i], "ModelError", TRUE), table)
          /\ UNCHANGED << embedder, loads >>
    /\ UNCHANGED << proc, logs, corpus, script, perms, table, db, ready, initPc, srch,
                    connects, nIngests, nSearches, nEdits >>

\* const files = await glob('**/*.md', { cwd: DOCS_DIR }), and the loop starts.
IngestGlob(i) ==
    /\ Alive /\ ing[i].pc = "glob"
    /\ SetIngest(i, Scan([ing[i] EXCEPT !.files = Names(corpus), !.globbed = corpus],
                         corpus, 1), table)
    /\ UNCHANGED << proc, logs, corpus, script, perms, table, db, embedder, ready, initPc, srch,
                    connects, loads, nIngests, nSearches, nEdits >>

\* data.push({ vector, text: chunk, source: file }): the chunk the embedder
\* was called with is pushed; pending are the chunks of the file not pushed yet.
Pushed(rec) ==
    [rec EXCEPT !.data = Append(rec.data, Head(rec.pending)), !.pending = Tail(rec.pending)]

\* await this.embedder(chunk, ...) has settled.  Resolved: the chunk is pushed
\* and the embedder is called with the next chunk of the file, or, after the
\* last one, the loop over the files goes on.  Rejected: ingest() throws.
IngestEmbed(i) ==
    /\ Alive /\ ing[i].pc = "embed"
    /\ \/ SetIngest(i, IF Pushed(ing[i]).pending # << >> THEN Pushed(ing[i])
                         ELSE Scan(Pushed(ing[i]), corpus, ing[i].idx + 1), table)
       \/ SetIngest(i, Throw(ing[i], "EmbedError", TRUE), table)
    /\ UNCHANGED << proc, logs, corpus, script, perms, table, db, embedder, ready, initPc, srch,
                    connects, loads, nIngests, nSearches, nEdits >>

\* Variant: the old table is not dropped.
AfterDropKeep(t) == t

\* The table a successful dropTable('documentation') leaves.
AfterDrop(t) == NoTable

\* try { await this.db.dropTable('documentation') } catch (e) { }, and
\* createTable is called.  dropTable removes the table, or rejects: for a
\* failure of the store while the table is there, or for a missing table.
IngestDrop(i) ==
    /\ Alive /\ ing[i].pc = "drop"
    /\ \/ /\ table.exists
          /\ table' = AfterDrop(table)
          /\ SetIngest(i, [ing[i] EXCEPT !.pc = "create", !.createIssued = TRUE,
                                         !.dropped = TRUE], table')
          /\ srch' = [j \in SearchIds |->
                        IF SearchInFlight(j) THEN [srch[j] EXCEPT !.overlapDrop = TRUE]
                        ELSE srch[j]]
       \/ /\ table.exists
          /\ SetIngest(i, [ing[i] EXCEPT !.pc = "create", !.createIssued = TRUE,
                                         !.fault = TRUE, !.dropFailed = TRUE], table)
          /\ UNCHANGED << table, srch >>
       \/ /\ ~table.exists
          /\ SetIngest(i, [ing[i] EXCEPT !.pc = "create", !.createIssued = TRUE], table)
          /\ UNCHANGED << table, srch >>
    /\ UNCHANGED << proc, logs, corpus, script, perms, db, embedder, ready, initPc,
                    connects, loads, nIngests, nSearches, nEdits >>

\* Variant: ingest() returns the number of files that gave a row.
ReturnedFiles(data) == Cardinality({data[k].source : k \in 1..Len(data)})

\* return data.length
Returned(data) == Len(data)

\* await this.db.createTable('documentation', data); this.ready = true;
\* return data.length.  createTable (mode 'create') rejects an existing name.
IngestCreate(i) ==
    /\ Alive /\ ing[i].pc = "create"
    /\ \/ /\ ~table.exists
          /\ table' = TableOf(ing[i].data)
          /\ ready' = TRUE
          /\ SetIngest(i, [ing[i] EXCEPT !.pc = "done", !.result = "ok",
                                         !.count = Returned(ing[i].data)], table')
       \/ /\ ~table.exists
          /\ SetIngest(i, Throw(ing[i], "StorageError", TRUE), table)
          /\ UNCHANGED << table, ready >>
       \/ /\ table.exists
          /\ SetIngest(i, Throw(ing[i], "StorageError", FALSE), table)
          /\ UNCHANGED << table, ready >>
    /\ UNCHANGED << proc, logs, corpus, script, perms, db, embedder, initPc, srch,
                    connects, loads, nIngests, nSearches, nEdits >>

(***************************************************************************)
(* RAGSystem.isReady and RAGSystem.search                                  *)
(***************************************************************************)
isReady == ready

\* Variant: search() does not look at the readiness flag.
NotReadyNever(r) == FALSE

\* if (!this.ready) throw new Error("RAG system is not ready.")
NotReady(r) == ~r

SearchDone(rec, result, rows) ==
    [rec EXCEPT !.pc = "done", !.result = result, !.rows = rows]

\* search(query, limit) is called: the readiness check, and the embedder is
\* called with the query (a TypeError when this.embedder is not set).
SearchCall(j, q, limit) ==
    /\ Serving /\ srch[j].pc = "idle"
    /\ nSearches < MaxSearches
    /\ nSearches' = nSearches + 1
    /\ LET rec == [IdleSearch EXCEPT !.query = q, !.limit = limit, !.called = TRUE,
                                     !.readyAtCall = ready, !.ingestedAtCall = ingested,
                                     !.overlap = AnyIngestInFlight,
                                     !.overlapDrop = AnyIngestDropped]
       IN srch' = [srch EXCEPT ![j] =
                      IF NotReady(ready) THEN SearchDone(rec, "NotReady", << >>)
                      ELSE IF embedder = 0 THEN SearchDone(rec, "TypeError", << >>)
                      ELSE [rec EXCEPT !.pc = "embed", !.embedded = TRUE]]
    /\ UNCHANGED << proc, logs, corpus, script, perms, table, db, embedder, ready, initPc, ing,
                    connects, loads, ingested, lastRun, nIngests, nEdits >>

\* await this.embedder(query, ...) has settled.  Resolved: queryVector is
\* taken from the output and openTable('documentation') is called.  Rejected:
\* search() throws.
SearchEmbed(j) ==
    /\ Alive /\ srch[j].pc = "embed"
    /\ \/ srch' = [srch EXCEPT ![j] = [srch[j] EXCEPT !.pc = "open", !.storage = TRUE,
                                                      !.qv = Embed(srch[j].query)]]
       \/ srch' = [srch EXCEPT ![j] = SearchDone(srch[j], "EmbedError", << >>)]
    /\ UNCHANGED << proc, logs, corpus, script, perms, table, db, embedder, ready, initPc, ing,
                    connects, loads, ingested, lastRun, nIngests, nSearches, nEdits >>

\* await this.db.openTable('documentation') has settled: the table is there
\* and vectorSearch(queryVector).limit(limit).toArray() is called, or it is
\* not and search() throws the error of the store.
SearchOpen(j) ==
    /\ Alive /\ srch[j].pc = "open"
    /\ srch' = [srch EXCEPT ![j] =
                  IF table.exists THEN [srch[j] EXCEPT !.pc = "query"]
                  ELSE SearchDone(srch[j], "StorageError", << >>)]
    /\ UNCHANGED << proc, logs, corpus, script, perms, table, db, embedder, ready, initPc, ing,
                    connects, loads, ingested, lastRun, nIngests, nSearches, nEdits >>

\* await table.vectorSearch(queryVector).limit(limit).toArray(), mapped.  What
\* the store does with a limit that is not positive is the store's business:
\* it may reject the query, return nothing, or return every row.
SearchQuery(j) ==
    /\ Alive /\ srch[j].pc = "query"
    /\ LET rec == [srch[j] EXCEPT !.indexSize = Len(table.rows)] IN
       IF ~table.exists
       THEN srch' = [srch EXCEPT ![j] = SearchDone(srch[j], "StorageError", << >>)]
       ELSE IF rec.limit > 0
       THEN srch' = [srch EXCEPT ![j] =
                        SearchDone(rec, "ok", VectorSearch(table.rows, rec.qv, rec.limit))]
       ELSE \E outcome \in {"reject", "nothing", "all"} :
               srch' = [srch EXCEPT ![j] =
                   CASE outcome = "reject" -> SearchDone(rec, "StorageError", << >>)
                     [] outcome = "nothing" -> SearchDone(rec, "ok", << >>)
                     [] outcome = "all" ->
                          SearchDone(rec, "ok", VectorSearch(table.rows, rec.qv, Len(table.rows)))]
    /\ UNCHANGED << proc, logs, corpus, script, perms, table, db, embedder, ready, initPc, ing,
                    connects, loads, ingested, lastRun, nIngests, nSearches, nEdits >>

\* The callers of the settled calls run: the slots are free again.
Deliver ==
    /\ proc # "exited" /\ Settled
    /\ ing' = [i \in DOMAIN ing |-> IF ing[i].pc = "done" THEN IdleIngest ELSE ing[i]]
    /\ srch' = [j \in DOMAIN srch |-> IF srch[j].pc = "done" THEN IdleSearch ELSE srch[j]]
    /\ UNCHANGED << proc, logs, corpus, script, perms, table, db, embedder, ready, initPc,
                    connects, loads, ingested, lastRun, nIngests, nSearches, nEdits >>

(***************************************************************************)
(* The environment: the files under docs/ change.                          *)
(***************************************************************************)
EditCorpus ==
    /\ Alive /\ nEdits < MaxEdits
    /\ nEdits' = nEdits + 1
    /\ corpus' = Edited(corpus)
    /\ UNCHANGED << proc, logs, script, perms, table, db, embedder, ready, initPc, ing, srch,
                    connects, loads, ingested, lastRun, nIngests, nSearches >>

Next ==
    \/ LoginOk
    \/ LoginFail
    \/ InitConnect
    \/ InitPipeline
    \/ InitTableNames
    \/ \E i \in IngestIds : IngestCall(i)
    \/ \E i \in IngestIds : IngestConnect(i)
    \/ \E i \in IngestIds : IngestLoad(i)
    \/ \E i \in IngestIds : IngestGlob(i)
    \/ \E i \in IngestIds : IngestEmbed(i)
    \/ \E i \in IngestIds : IngestDrop(i)
    \/ \E i \in IngestIds : IngestCreate(i)
    \/ \E j \in SearchIds, q \in Queries, limit \in Limits : SearchCall(j, q, limit)
    \/ \E j \in SearchIds : SearchEmbed(j)
    \/ \E j \in SearchIds : SearchOpen(j)
    \/ \E j \in SearchIds : SearchQuery(j)
    \/ Deliver
    \/ EditCorpus

Spec == Init /\ [][Next]_vars

(***************************************************************************)
(* The server.  Requests reach RAGSystem through the tools (part_002),     *)
(* which the CallTool handler (part_001) calls and awaits: the handler of  *)
(* a second request starts while the first is suspended at an await, so    *)
(* two ingest_documentation calls can be in progress at once.  docs/ is    *)
(* empty or holds two files, and stays as it is.                           *)
(***************************************************************************)
ServerIngestIds == {1, 2}

\* The arguments of a search_documentation request.
NoArgs == [hasQuery |-> FALSE, query |-> << >>]
QueryArgs(q) == [hasQuery |-> TRUE, query |-> q]
ToolArgs == {NoArgs} \cup {QueryArgs(q) : q \in Queries}

\* Variant: the tool does not look at isReady().
ToolNotReadyNever(r) == FALSE

\* if (!ragSystem.isReady()) return { ... "Error: RAG system is still loading. Please wait." }
ToolNotReady(r) == ~r

\* if (!args || typeof args.query !== 'string') return { ... "Error: Query string required." }
QueryMissing(args) == ~args.hasQuery

\* search_documentation.execute(args): the two early returns, then
\* ragSystem.search(args.query), the limit left to its default.
ToolSearch(j, args) ==
    /\ Serving /\ srch[j].pc = "idle"
    /\ nSearches < MaxSearches
    /\ nSearches' = nSearches + 1
    /\ LET rec == [IdleSearch EXCEPT !.readyAtCall = isReady, !.ingestedAtCall = ingested,
                                     !.overlap = AnyIngestInFlight,
                                     !.overlapDrop = AnyIngestDropped]
           call == [rec EXCEPT !.query = args.query, !.limit = DefaultLimit,
                               !.called = TRUE]
       IN srch' = [srch EXCEPT ![j] =
                      IF ToolNotReady(isReady)
                      THEN [SearchDone(rec, "none", << >>) EXCEPT !.early = "StillLoading"]
                      ELSE IF QueryMissing(args)
                      THEN [SearchDone(rec, "none", << >>) EXCEPT !.early = "QueryRequired"]
                      ELSE IF NotReady(ready) THEN SearchDone(call, "NotReady", << >>)
                      ELSE IF embedder = 0 THEN SearchDone(call, "TypeError", << >>)
                      ELSE [call EXCEPT !.pc = "embed", !.embedded = TRUE]]
    /\ UNCHANGED << proc, logs, corpus, script, perms, table, db, embedder, ready, initPc, ing,
                    connects, loads, ingested, lastRun, nIngests, nEdits >>

\* What the handler sends back for a settled search_documentation call: the
\* text of an early return, the sources and texts of the results, or, when
\* search() threw, the error's message with isError set.
ToolResponse(rec) ==
    IF rec.early # "none"
    THEN [kind |-> rec.early, isError |-> FALSE, results |-> 0]
    ELSE IF rec.result = "ok"
    THEN [kind |-> "Context", isError |-> FALSE, results |-> Len(rec.rows)]
    ELSE [kind |-> "InternalError", isError |-> TRUE, results |-> 0]

\* The slots are interchangeable: a request takes the first idle one.
FirstIdle(i) == \A k \in ServerIngestIds : ing[k].pc = "idle" => i <= k

InitServer ==
    /\ proc = "starting"
    /\ logs = {}
    /\ corpus \in {NoFiles, Large}
    /\ script = IdleScript
    /\ perms = IdlePerms
    /\ table \in {NoTable, TableOf(RowsOf(Small))}
    /\ db = 0
    /\ embedder = 0
    /\ ready = FALSE
    /\ initPc = "connect"
    /\ ing = [i \in ServerIngestIds |-> IdleIngest]
    /\ srch = [j \in SearchIds |-> IdleSearch]
    /\ connects = 0
    /\ loads = 0
    /\ ingested = FALSE
    /\ lastRun = NoRun
    /\ nIngests = 0
    /\ nSearches = 0
    /\ nEdits = 0

NextServer ==
    \/ LoginOk
    \/ LoginFail
    \/ InitConnect
    \/ InitPipeline
    \/ InitTableNames
    \/ \E i \in ServerIngestIds : FirstIdle(i) /\ IngestCall(i)
    \/ \E i \in ServerIngestIds : IngestConnect(i)
    \/ \E i \in ServerIngestIds : IngestLoad(i)
    \/ \E i \in ServerIngestIds : IngestGlob(i)
    \/ \E i \in ServerIngestIds : IngestEmbed(i)
    \/ \E i \in ServerIngestIds : IngestDrop(i)
    \/ \E i \in ServerIngestIds : IngestCreate(i)
    \/ \E j \in SearchIds, args \in ToolArgs : ToolSearch(j, args)
    \/ \E j \in SearchIds : SearchEmbed(j)
    \/ \E j \in SearchIds : SearchOpen(j)
    \/ \E j \in SearchIds : SearchQuery(j)
    \/ Deliver

SpecServer == InitServer /\ [][NextServer]_vars

(***************************************************************************)
(* The chunking of single documents.  docs/ holds one file, made of an     *)
(* optional text before the first header and of up to two sections whose   *)
(* lengths are around the threshold of the filter; ingest() is called on   *)
(* it, and what its loop pushes are the chunks of the document.            *)
(***************************************************************************)
\* What a document may start with: nothing, white space only, or a text of
\* 49, 50 or 51 characters between white space, a line separator before the
\* header that follows.
Preambles ==
    {<< >>, << "\f", "U+00A0", "\t", "U+000B", "\n" >>}
        \cup {<< "U+FEFF" >> \o Rep("p", n) \o << " ", "U+2028" >> :
                  n \in (MinChunkLength - 1)..(MinChunkLength + 1)}

\* The lengths of the bodies of the sections: 47 to 51 characters, which with
\* the title and the line break make segments of 49 to 53 characters.
BodyLengths == (MinChunkLength - 3)..(MinChunkLength + 1)

SectionsOf(t, b) == {<< >>} \cup {Section(t, b, n) : n \in BodyLengths}

\* "## <t>\n<b repeated n times>\r\n": a header of level two, a no-break
\* space after its marks.
SubSection(t, b, n) == << "#", "#", "U+00A0", t, "\n" >> \o Rep(b, n) \o << "\r", "\n" >>

SubSectionsOf(t, b) == {<< >>} \cup {SubSection(t, b, n) : n \in BodyLengths}

EdgeDocs ==
    {pre \o s1 \o s2 : pre \in Preambles, s1 \in SectionsOf("A", "a"),
                         s2 \in SubSectionsOf("B", "b")}

EdgeCorpora == {<< File("doc.md", d) >> : d \in EdgeDocs}

InitChunk ==
    /\ proc = "starting"
    /\ logs = {}
    /\ corpus \in EdgeCorpora
    /\ script = IdleScript
    /\ perms = IdlePerms
    /\ table = NoTable
    /\ db = 0
    /\ embedder = 0
    /\ ready = FALSE
    /\ initPc = "connect"
    /\ ing = [i \in IngestIds |-> IdleIngest]
    /\ srch = [j \in SearchIds |-> IdleSearch]
    /\ connects = 0
    /\ loads = 0
    /\ ingested = FALSE
    /\ lastRun = NoRun
    /\ nIngests = 0
    /\ nSearches = 0
    /\ nEdits = 0

NextChunk ==
    \/ LoginOk
    \/ InitConnect
    \/ InitPipeline
    \/ InitTableNames
    \/ \E i \in IngestIds : IngestCall(i)
    \/ \E i \in IngestIds : IngestConnect(i)
    \/ \E i \in IngestIds : IngestLoad(i)
    \/ \E i \in IngestIds : IngestGlob(i)
    \/ \E i \in IngestIds : IngestEmbed(i)
    \/ \E i \in IngestIds : IngestDrop(i)
    \/ \E i \in IngestIds : IngestCreate(i)
    \/ Deliver

SpecChunk == InitChunk /\ [][NextChunk]_vars

(***************************************************************************)
(* scripts/ingest-docs.ts: main, run as a process of its own on the same   *)
(* docs/.  DB_PATH is process.cwd()/data/lancedb in the script as in the   *)
(* server: started in the directory of the server, the script works on the *)
(* store of the server; started elsewhere, on a store of its own, which    *)
(* here starts with the table the store of the server starts with.  The    *)
(* server is followed through its ingest() calls, which connect the store  *)
(* and load the model themselves.                                          *)
(***************************************************************************)
\* .filter(c => c.length > 50)
ScriptLongEnough(c) == Len(c) > ScriptMinChunkLength

\* content.split(/^#+\s/gm).map(c => c.trim()).filter(c => c.length > 50)
ScriptChunks(content) == SelectSeq(MapTrim(Split(content)), ScriptLongEnough)

\* The rows the inner loop of the script pushes for one file.
ScriptFileRows(file, content) ==
    LET chunks == ScriptChunks(content) IN
    [k \in 1..Len(chunks) |->
        [vector |-> Embed(chunks[k]), text |-> chunks[k], source |-> file]]

\* main().catch(console.error): the rejection is printed and the script ends.
ScriptThrow(rec, err) == [rec EXCEPT !.pc = "done", !.result = err, !.fault = TRUE]

\* Variant: the script does not check that there is something to save.
ScriptNoContentNever(data) == FALSE

\* if (data.length === 0) { console.warn(...); return; }
ScriptNoContent(data) == Len(data) = 0

\* After the loop over the files: the warning and the return, or dropTable is
\* called.
ScriptAfterLoop(rec) ==
    IF ScriptNoContent(rec.data)
    THEN [rec EXCEPT !.pc = "done", !.result = "warned"]
    ELSE [rec EXCEPT !.pc = "drop", !.dropIssued = TRUE]

\* The loop over the files from files[k] on, up to its next await.
RECURSIVE ScriptScan(_, _, _)
ScriptScan(rec, c, k) ==
    IF k > Len(rec.files) THEN ScriptAfterLoop(rec)
    ELSE IF ~HasFile(c, rec.files[k]) THEN ScriptThrow(rec, "ReadError")
    ELSE LET rows == ScriptFileRows(rec.files[k], Content(c, rec.files[k])) IN
         IF rows = << >> THEN ScriptScan(rec, c, k + 1)
         ELSE [rec EXCEPT !.pc = "embed", !.idx = k, !.pending = rows]

ScriptUnchanged ==
    UNCHANGED << proc, logs, corpus, perms, db, embedder, ready, initPc, ing, srch,
                 connects, loads, ingested, lastRun, nIngests, nSearches, nEdits >>

\* The 'documentation' table of the store at DB_PATH of the script.
ScriptStore == IF script.shared THEN table ELSE script.table

\* The script goes on as rec, the table of its store being t after the step.
SetScript(rec, t) ==
    /\ script' = [rec EXCEPT !.table = t]
    /\ table' = IF script.shared THEN t ELSE table
    /\ ScriptUnchanged

\* The script is started: main() is called, and lancedb.connect with it.
ScriptStart ==
    /\ script.pc = "idle"
    /\ SetScript([script EXCEPT !.pc = "connect", !.start = ScriptStore,
                                 !.overlap = AnyIngestInFlight],
                 ScriptStore)

\* const db = await lancedb.connect(DB_PATH)
ScriptConnect ==
    /\ script.pc = "connect"
    /\ \/ SetScript([script EXCEPT !.pc = "load"], ScriptStore)
       \/ SetScript(ScriptThrow(script, "StorageError"), ScriptStore)

\* const extractor = await pipeline(...)
ScriptLoad ==
    /\ script.pc = "load"
    /\ \/ SetScript([script EXCEPT !.pc = "glob"], ScriptStore)
       \/ SetScript(ScriptThrow(script, "ModelError"), ScriptStore)

\* const files = await glob('**/*.md', { cwd: DOCS_DIR }), and the loop starts.
ScriptGlob ==
    /\ script.pc = "glob"
    /\ SetScript(ScriptScan([script EXCEPT !.files = Names(corpus)], corpus, 1), ScriptStore)

\* await extractor(chunk, ...) has settled.  Resolved: the chunk is pushed and
\* the extractor is called with the next chunk of the file, or, after the last
\* one, the loop over the files goes on.  Rejected: main() throws.
ScriptEmbed ==
    /\ script.pc = "embed"
    /\ \/ SetScript(IF Pushed(script).pending # << >> THEN Pushed(script)
                     ELSE ScriptScan(Pushed(script), corpus, script.idx + 1), ScriptStore)
       \/ SetScript(ScriptThrow(script, "EmbedError"), ScriptStore)

\* try { await db.dropTable('documentation') } catch (e) { }, and createTable
\* is called.  dropTable removes the table, or rejects: for a failure of the
\* store while the table is there, or for a missing table.
ScriptDrop ==
    /\ script.pc = "drop"
    /\ \/ /\ ScriptStore.exists
          /\ SetScript([script EXCEPT !.pc = "create", !.createIssued = TRUE], NoTable)
       \/ /\ ScriptStore.exists
          /\ SetScript([script EXCEPT !.pc = "create", !.createIssued = TRUE,
                                       !.fault = TRUE], ScriptStore)
       \/ /\ ~ScriptStore.exists
          /\ SetScript([script EXCEPT !.pc = "create", !.createIssued = TRUE], ScriptStore)

\* await db.createTable('documentation', data), and the script ends.
\* createTable (mode 'create') rejects an existing name.
ScriptCreate ==
    /\ script.pc = "create"
    /\ \/ /\ ~ScriptStore.exists
          /\ SetScript([script EXCEPT !.pc = "done", !.result = "ok"], TableOf(script.data))
       \/ SetScript(ScriptThrow(script, "StorageError"), ScriptStore)

\* One file whose only segment has exactly 50 characters once trimmed.
Threshold == << File("t.md", Section("T", "t", MinChunkLength - 2)) >>

InitScript ==
    /\ proc = "starting"
    /\ logs = {}
    /\ corpus \in Corpora \cup {Threshold}
    /\ table \in {NoTable, TableOf(RowsOf(Small))}
    /\ \E sh \in BOOLEAN : script = [IdleScript EXCEPT !.shared = sh, !.table = table]
    /\ perms = IdlePerms
    /\ db = 0
    /\ embedder = 0
    /\ ready = FALSE
    /\ initPc = "connect"
    /\ ing = [i \in IngestIds |-> IdleIngest]
    /\ srch = [j \in SearchIds |-> IdleSearch]
    /\ connects = 0
    /\ loads = 0
    /\ ingested = FALSE
    /\ lastRun = NoRun
    /\ nIngests = 0
    /\ nSearches = 0
    /\ nEdits = 0

NextScript ==
    \/ LoginOk
    \/ \E i \in IngestIds : IngestCall(i)
    \/ \E i \in IngestIds : IngestConnect(i)
    \/ \E i \in IngestIds : IngestLoad(i)
    \/ \E i \in IngestIds : IngestGlob(i)
    \/ \E i \in IngestIds : IngestEmbed(i)
    \/ \E i \in IngestIds : IngestDrop(i)
    \/ \E i \in IngestIds : IngestCreate(i)
    \/ Deliver
    \/ ScriptStart
    \/ ScriptConnect
    \/ ScriptLoad
    \/ ScriptGlob
    \/ ScriptEmbed
    \/ ScriptDrop
    \/ ScriptCreate

SpecScript == InitScript /\ [][NextScript]_vars

(***************************************************************************)
(* tools.update_entity_permissions (part_002).  Slingr holds the           *)
(* permissions of the entity as an array of one object per group; GET      *)
(* returns it, bare or wrapped in an object, and PUT replaces it by the    *)
(* array of the payload.  The identifying fields of an object are          *)
(* optional: one that is there holds a string, written << s >>, and one    *)
(* that is not reads as undefined, written << >>, which is === to no       *)
(* string, the string "undefined" included.                                *)
(***************************************************************************)
Undefined == << >>

\* A field that holds the string s.
Str(s) == << s >>

\* p.group is not there: p.group?.name, p.group?.id, p.group?.label are undefined.
NoGroupRef == [id |-> Undefined, name |-> Undefined, label |-> Undefined]

\* A group identified by its own id and label, and one identified by a nested
\* group object.
AdminsPerm ==
    [id |-> Str("g1"), name |-> Undefined, label |-> Str("Admins"), group |-> NoGroupRef,
     canEdit |-> "NEVER", canRead |-> "ALWAYS"]

UsersPerm ==
    [id |-> Undefined, name |-> Undefined, label |-> Undefined,
     group |-> [id |-> Str("g2"), name |-> Str("users"), label |-> Str("Users")],
     canEdit |-> "NEVER", canRead |-> "NEVER"]

StoredPermissions == {<< >>, << AdminsPerm, UsersPerm >>}

\* The forms of the body of a response: the array itself, an object with
\* items, an object with permissions, an object with neither.
Shapes == {"array", "items", "permissions", "other"}

\* The group arguments: an id, a label of a nested group, a name no group has,
\* and the string "undefined".
GroupArgs == {"g1", "Users", "nobody", "undefined"}

UpdateArgs == {[canEdit |-> "ALWAYS"], [canRead |-> "CONDITION", condition |-> "owner"]}

\* The body of the GET response for the stored array.
ResponseData(stored, shape) ==
    [shape |-> shape, list |-> IF shape = "other" THEN << >> ELSE stored,
     total |-> Len(stored)]

\* data.items || data.permissions || (Array.isArray(data) ? data : [])
PermissionsArray(data) == IF data.shape = "other" THEN << >> ELSE data.list

\* field === g, g a string.
StrictEquals(field, g) == field = Str(g)

\* The predicate of findIndex and find.
MatchesGroup(p, g) ==
    \/ StrictEquals(p.name, g) \/ StrictEquals(p.id, g) \/ StrictEquals(p.label, g)
    \/ StrictEquals(p.group.name, g) \/ StrictEquals(p.group.id, g)
    \/ StrictEquals(p.group.label, g)

\* permissionsArray.findIndex(...): the first match, or -1.
FindIndex(arr, g) ==
    IF \E n \in 1..Len(arr) : MatchesGroup(arr[n], g)
    THEN CHOOSE n \in 1..Len(arr) :
            /\ MatchesGroup(arr[n], g)
            /\ \A m \in 1..(n - 1) : ~MatchesGroup(arr[m], g)
    ELSE -1

\* { ...permissionsArray[groupIndex], ...input.updates }
Merge(p, u) == [f \in DOMAIN p \cup DOMAIN u |-> IF f \in DOMAIN u THEN u[f] ELSE p[f]]

\* The payload of the PUT: the body of the GET with the array replaced.
Payload(data, arr) == [data EXCEPT !.list = arr]

\* The call in slot k goes on as rec, the stored array being st after the step.
SetUpdate(k, rec, st) ==
    perms' = [perms EXCEPT !.calls[k] = rec, !.stored = st]

PermsUnchanged ==
    UNCHANGED << proc, logs, corpus, script, table, db, embedder, ready, initPc, ing, srch,
                 connects, loads, ingested, lastRun, nIngests, nSearches, nEdits >>

UpdateThrow(rec, err) == [rec EXCEPT !.pc = "done", !.result = err]

\* execute(args): schema.parse, and the GET is sent.
UpdateCall(k, valid, g, u) ==
    /\ proc = "serving"
    /\ perms.calls[k].pc = "idle"
    /\ perms.nUpdates < MaxUpdates
    /\ perms' = [perms EXCEPT
                    !.nUpdates = perms.nUpdates + 1,
                    !.calls[k] =
                        IF ~valid THEN UpdateThrow(IdleUpdate, "ZodError")
                        ELSE [IdleUpdate EXCEPT !.pc = "get", !.group = g, !.updates = u]]
    /\ PermsUnchanged

\* The GET has resolved: the array is taken from the body, the group is looked
\* for, its object is merged with the updates, and the PUT is sent.
UpdateGet(k) ==
    /\ perms.calls[k].pc = "get"
    /\ LET rec == perms.calls[k]
           data == ResponseData(perms.stored, perms.shape)
           arr == PermissionsArray(data)
           idx == FindIndex(arr, rec.group)
       IN \/ SetUpdate(k, UpdateThrow(rec, "HttpError"), perms.stored)
          \/ SetUpdate(k,
                IF Len(arr) = 0 THEN UpdateThrow([rec EXCEPT !.data = data], "EmptyPermissions")
                ELSE IF idx = -1 THEN UpdateThrow([rec EXCEPT !.data = data], "GroupNotFound")
                ELSE [rec EXCEPT !.pc = "put", !.data = data, !.index = idx,
                                 !.putSent = TRUE,
                                 !.payload =
                                     Payload(data, [arr EXCEPT ![idx] = Merge(arr[idx], rec.updates)])],
                perms.stored)
    /\ PermsUnchanged

\* The PUT reaches Slingr, which stores the array of the payload, and its
\* response resolves; or the request fails and nothing is stored.
UpdatePut(k) ==
    /\ perms.calls[k].pc = "put"
    /\ LET rec == perms.calls[k] IN
       \/ SetUpdate(k, [rec EXCEPT !.pc = "done", !.result = "ok",
                                   !.before = perms.stored,
                                   !.after = PermissionsArray(rec.payload)],
                    PermissionsArray(rec.payload))
       \/ SetUpdate(k, UpdateThrow(rec, "HttpError"), perms.stored)
    /\ PermsUnchanged

\* The handler has sent the result of the call.
UpdateDeliver(k) ==
    /\ perms.calls[k].pc = "done"
    /\ SetUpdate(k, IdleUpdate, perms.stored)
    /\ PermsUnchanged

InitPerms ==
    /\ proc = "starting"
    /\ logs = {}
    /\ corpus = NoFiles
    /\ script = IdleScript
    /\ \E st \in StoredPermissions, sh \in Shapes :
          perms = [IdlePerms EXCEPT !.stored = st, !.shape = sh]
    /\ table = NoTable
    /\ db = 0
    /\ embedder = 0
    /\ ready = FALSE
    /\ initPc = "connect"
    /\ ing = [i \in IngestIds |-> IdleIngest]
    /\ srch = [j \in SearchIds |-> IdleSearch]
    /\ connects = 0
    /\ loads = 0
    /\ ingested = FALSE
    /\ lastRun = NoRun
    /\ nIngests = 0
    /\ nSearches = 0
    /\ nEdits = 0

NextPerms ==
    \/ LoginOk
    \/ LoginFail
    \/ \E k \in UpdateIds, valid \in BOOLEAN, g \in GroupArgs, u \in UpdateArgs :
          UpdateCall(k, valid, g, u)
    \/ \E k \in UpdateIds : UpdateGet(k)
    \/ \E k \in UpdateIds : UpdatePut(k)
    \/ \E k \in UpdateIds : UpdateDeliver(k)

SpecPerms == InitPerms /\ [][NextPerms]_vars

(***************************************************************************)
(* Properties.                                                             *)
(***************************************************************************)
Min(a, b) == IF a <= b THEN a ELSE b

\* The (text, source) pairs of a sequence of rows.
RowSet(rows) == {[text |-> rows[k].text, source |-> rows[k].source] : k \in 1..Len(rows)}

\* A call in slot i has settled on a corpus that did not change while it ran
\* and without any failure of the environment.
CleanRun(i) == ing[i].pc = "done" /\ ~ing[i].fault /\ ing[i].edits = nEdits

\* C1 (as stated): as long as no ingest() has returned successfully, every
\* search() fails with the not-ready error, having called neither the embedder
\* nor the store (stated for the searches with a positive limit).
C1_NoSearchBeforeIngest ==
    ~ingested =>
        \A j \in SearchIds :
            (srch[j].pc # "idle" /\ srch[j].limit > 0) =>
                /\ srch[j].result = "NotReady"
                /\ ~srch[j].embedded
                /\ ~srch[j].storage

\* C1 (amended): a search() called while the readiness flag is false fails with
\* the not-ready error, having called neither the embedder nor the store; and
\* the flag is false as long as initialize() has not completed and no ingest()
\* has returned successfully.
C1_NotReadySearchFails ==
    /\ \A j \in SearchIds :
          (srch[j].pc # "idle" /\ ~srch[j].readyAtCall) =>
              /\ srch[j].pc = "done"
              /\ srch[j].result = "NotReady"
              /\ ~srch[j].embedded
              /\ ~srch[j].storage
    /\ (~ingested /\ initPc # "done") => ~isReady

C1_Witness ==
    \E j \in SearchIds : srch[j].result = "NotReady" /\ ~ingested /\ initPc = "done"

\* C2: once an ingest() has returned successfully isReady() is true, and a
\* search() with a positive limit called after that, with no ingest() running
\* at any time during it and the embedder not failing, returns a result list.
C2_SearchAfterIngestSucceeds ==
    /\ ingested => isReady
    /\ \A j \in SearchIds :
          (srch[j].pc = "done" /\ srch[j].ingestedAtCall /\ srch[j].limit > 0
              /\ ~srch[j].overlap /\ srch[j].result # "EmbedError") =>
              srch[j].result = "ok"

\* C3: an ingest() whose loop ends with no row fails with the no-content error,
\* has called neither dropTable nor createTable, and the step that throws leaves
\* the table and the readiness flag as they are.
C3_EmptyCorpusLeavesIndex ==
    /\ [](\A i \in IngestIds :
            (ing[i].scanned /\ ing[i].data = << >>) =>
                /\ ing[i].pc = "done"
                /\ ing[i].result = "NoContent"
                /\ ~ing[i].dropIssued
                /\ ~ing[i].createIssued)
    /\ [][\A i \in IngestIds :
            (~ing[i].scanned /\ ing'[i].scanned /\ ing'[i].data = << >>) =>
                (table' = table /\ ready' = ready)]_vars

C3_Witness ==
    \E i \in IngestIds :
        /\ ing[i].result = "NoContent"
        /\ ing[i].globbed = Scenario
        /\ table.exists /\ ready

\* C4: a search() that passed the readiness check and during which an ingest()
\* was replacing an existing table never meets a missing table: unless the
\* embedder fails, it returns rows of one whole table.
C4_SearchSeesWholeGeneration ==
    \A j \in SearchIds :
        (srch[j].pc = "done" /\ srch[j].readyAtCall /\ srch[j].overlapDrop
            /\ srch[j].limit > 0 /\ srch[j].result # "EmbedError") =>
            /\ srch[j].result = "ok"
            /\ Len(srch[j].rows) = Min(srch[j].limit, srch[j].indexSize)

\* C5: a search() with a limit of 0 or less fails with an input-validation
\* error before the embedder or the store is called.
C5_LimitValidated ==
    \A j \in SearchIds :
        (srch[j].pc # "idle" /\ srch[j].readyAtCall /\ srch[j].limit <= 0) =>
            /\ srch[j].pc = "done"
            /\ srch[j].result = "InputValidation"
            /\ ~srch[j].embedded
            /\ ~srch[j].storage

\* C6: a successful search() with a positive limit returns exactly
\* min(limit, rows in the table) results, so never more than limit.
C6_AtMostLimit ==
    \A j \in SearchIds :
        (srch[j].pc = "done" /\ srch[j].result = "ok" /\ srch[j].limit > 0) =>
            /\ Len(srch[j].rows) = Min(srch[j].limit, srch[j].indexSize)
            /\ Len(srch[j].rows) <= srch[j].limit

C6_Witness ==
    \E j \in SearchIds :
        /\ srch[j].pc = "done" /\ srch[j].result = "ok"
        /\ srch[j].limit = DefaultLimit
        /\ srch[j].indexSize > DefaultLimit
        /\ Len(srch[j].rows) = DefaultLimit

\* C7: an ingest() that follows a successful one, the corpus unchanged since
\* the first was called and the environment not failing, succeeds too, returns
\* the same count and leaves the same (text, source) rows, none twice.
C7_IngestTwiceSameIndex ==
    \A i \in IngestIds :
        (CleanRun(i) /\ ing[i].prev.result = "ok" /\ ing[i].prev.editsAtCall = nEdits) =>
            /\ ing[i].result = "ok"
            /\ ing[i].count = ing[i].prev.count
            /\ RowSet(table.rows) = RowSet(ing[i].prev.rows)
            /\ Len(table.rows) = Len(ing[i].prev.rows)

C7_Witness ==
    \E i \in IngestIds :
        /\ CleanRun(i) /\ ing[i].prev.result = "ok" /\ ing[i].prev.editsAtCall = nEdits
        /\ ing[i].result = "ok" /\ ing[i].count = Len(RowsOf(Large))

\* C8 (as stated): on the corpus of guide.md and notes.md, ingest() succeeds
\* and writes exactly one row, of source guide.md.
C8_ScenarioWritesOneRow ==
    \A i \in IngestIds :
        (CleanRun(i) /\ ing[i].globbed = Scenario) =>
            /\ ing[i].result = "ok"
            /\ ing[i].count = 1
            /\ Len(table.rows) = 1
            /\ table.rows[1].source = "guide.md"

\* The one segment of guide.md that is not empty, trimmed.
GuideSegment == Trim(Split(GuideMd)[2])

\* C8 (amended): on the corpus of guide.md and notes.md, ingest() fails with
\* the no-content error and writes no row: the one segment of guide.md has 44
\* characters once trimmed, which is not more than 50.
C8_ScenarioHasNoContent ==
    /\ Len(GuideSegment) = 44
    /\ \A i \in IngestIds :
          (CleanRun(i) /\ ing[i].globbed = Scenario) =>
              /\ ing[i].result = "NoContent"
              /\ ing[i].count = 0
              /\ ~ing[i].dropIssued
              /\ ~ing[i].createIssued

C8_Witness ==
    \E i \in IngestIds :
        CleanRun(i) /\ ing[i].globbed = Scenario /\ ing[i].result = "NoContent"

\* C9: the readiness flag is true only while the table exists, and no search()
\* with a positive limit ends with an error of the store.
C9_ReadyOnlyWhileTableExists ==
    /\ isReady => table.exists
    /\ \A j \in SearchIds :
          (srch[j].pc = "done" /\ srch[j].limit > 0) => srch[j].result # "StorageError"

\* C10: when initialize() fails, at whichever step, the failure is logged, the
\* failing step leaves the process as it is, and the readiness flag is false
\* until an ingest() has returned successfully.
C10_InitFailureIsSurvived ==
    /\ [](initPc = "failed" =>
            /\ {"InitFailed", "BackgroundInitFailed"} \subseteq logs
            /\ (isReady => ingested))
    /\ [][(initPc # "failed" /\ initPc' = "failed") => proc' = proc]_vars

C10_Witness ==
    /\ initPc = "failed" /\ proc = "serving"
    /\ \E j \in SearchIds : srch[j].pc = "done" /\ srch[j].result = "ok"

\* C11: at most one ingest() is in progress at any time, so that the dropTable
\* and createTable steps of two ingest_documentation calls never interleave,
\* and no call ends with an error of the store that the environment did not
\* cause.
C11_IngestsSerialized ==
    /\ Cardinality({i \in ServerIngestIds : IngestInFlight(i)}) <= 1
    /\ \A i \in ServerIngestIds :
          (ing[i].pc = "done" /\ ~ing[i].fault) => ing[i].result # "StorageError"

\* C12: when dropTable fails for another cause than a missing table, ingest()
\* fails with that error and createTable is not called.
C12_DropFailurePropagates ==
    \A i \in IngestIds :
        ing[i].dropFailed =>
            /\ ing[i].pc = "done"
            /\ ing[i].result = "StorageError"
            /\ ~ing[i].createIssued

\* C13: a search_documentation call made while isReady() is false returns the
\* still-loading text without calling search(); in particular its response is
\* never a result text with no result in it.
C13_NotReadyToolCall ==
    \A j \in SearchIds :
        (srch[j].pc # "idle" /\ ~srch[j].readyAtCall) =>
            /\ srch[j].pc = "done"
            /\ ~srch[j].called
            /\ ~srch[j].embedded /\ ~srch[j].storage
            /\ ToolResponse(srch[j]).kind = "StillLoading"
            /\ ~(ToolResponse(srch[j]).kind = "Context" /\ ToolResponse(srch[j]).results = 0)

C13_Witness ==
    \E j \in SearchIds :
        /\ srch[j].pc = "done" /\ ~srch[j].readyAtCall
        /\ ToolResponse(srch[j]).kind = "StillLoading"
        /\ table.exists /\ initPc = "tableNames"

\* The trimmed segments of the files of corpus c, each with the relative path
\* of its file.
SegmentsOf(c) ==
    UNION {{[text |-> Trim(Split(c[k].content)[n]), source |-> c[k].name] :
                n \in 1..Len(Split(c[k].content))} : k \in 1..Len(c)}

\* Those of at least 50 characters once trimmed (so not empty), by corpus.
LongSegments ==
    [c \in Corpora |->
        {s \in SegmentsOf(c) : Len(Trim(s.text)) >= MinChunkLength /\ s.text # << >>}]

AllLongSegments == UNION {LongSegments[c] : c \in Corpora}

\* C14: every row ingest() has accumulated, and every row of the table, has a
\* text of at least 50 characters once trimmed, so never empty, and the text
\* is a trimmed segment of the file whose relative path is the row's source.
C14_RowsAreChunks ==
    /\ \A k \in 1..Len(table.rows) :
          [text |-> table.rows[k].text, source |-> table.rows[k].source] \in AllLongSegments
    /\ \A i \in IngestIds : \A k \in 1..Len(ing[i].data) :
          [text |-> ing[i].data[k].text, source |-> ing[i].data[k].source]
              \in LongSegments[ing[i].globbed]

C14_Witness ==
    /\ ingested
    /\ \E k \in 1..Len(table.rows) :
          table.rows[k].source = "sub/faq.md" /\ Len(table.rows[k].text) = MinChunkLength + 2
    /\ \E k \in 1..Len(table.rows) :
          table.rows[k].source = "api.md" /\ Len(table.rows[k].text) = MinChunkLength + 1

\* The trimmed segments of each single document, in document order.
TrimmedSegments == [d \in EdgeDocs |-> MapTrim(Split(d))]

AtLeastMin(c) == Len(c) >= MinChunkLength
MoreThanMin(c) == Len(c) >= MinChunkLength + 1

Texts(rows) == [k \in 1..Len(rows) |-> rows[k].text]

\* The call in slot i has read and chunked the document.
Chunked(i) == ing[i].globbed # NoFiles

\* The texts its loop pushes, or is about to embed and push.
ChunkTexts(i) == Texts(ing[i].data \o ing[i].pending)

\* C15 (as stated): the chunks of a document are its segments of 50 characters
\* or more once trimmed, in document order.
C15_KeepsMinLength ==
    \A i \in IngestIds :
        Chunked(i) =>
            ChunkTexts(i) = SelectSeq(TrimmedSegments[ing[i].globbed[1].content], AtLeastMin)

\* C15 (amended): the chunks of a document are its segments of 51 characters
\* or more once trimmed, in document order; the segments of 50 characters or
\* fewer are dropped.
C15_KeepsMoreThanMin ==
    \A i \in IngestIds :
        Chunked(i) =>
            /\ ChunkTexts(i) = SelectSeq(TrimmedSegments[ing[i].globbed[1].content], MoreThanMin)
            /\ \A k \in 1..Len(ChunkTexts(i)) : Len(ChunkTexts(i)[k]) > MinChunkLength

\* A document of three segments of 51, 50 and 51 characters: two chunks.
C15_Witness ==
    \E i \in IngestIds :
        /\ Chunked(i)
        /\ ing[i].globbed[1].content =
               << "U+FEFF" >> \o Rep("p", MinChunkLength + 1) \o << " ", "U+2028" >>
                   \o Section("A", "a", MinChunkLength - 2)
                   \o SubSection("B", "b", MinChunkLength - 1)
        /\ Len(ChunkTexts(i)) = 2
        /\ ChunkTexts(i)[1] = Rep("p", MinChunkLength + 1)
        /\ ChunkTexts(i)[2] = << "B", "\n" >> \o Rep("b", MinChunkLength - 1)

\* The sections of each single document whose body has more than 50
\* characters: the title of the header line and the body under it.
LongSections ==
    [d \in EdgeDocs |->
        {[title |-> "A", body |-> Rep("a", n)] :
            n \in {m \in BodyLengths :
                      /\ m > MinChunkLength
                      /\ \E pre \in Preambles, s2 \in SubSectionsOf("B", "b") :
                            d = pre \o Section("A", "a", m) \o s2}}
        \cup
        {[title |-> "B", body |-> Rep("b", n)] :
            n \in {m \in BodyLengths :
                      /\ m > MinChunkLength
                      /\ \E pre \in Preambles, s1 \in SectionsOf("A", "a") :
                            d = pre \o s1 \o SubSection("B", "b", m)}}]

\* C16 (as stated): for every header line of a document followed by a body of
\* more than 50 characters, one chunk of the document is that body, trimmed.
C16_ChunkIsBody ==
    \A i \in IngestIds :
        Chunked(i) =>
            \A sec \in LongSections[ing[i].globbed[1].content] :
                \E k \in 1..Len(ChunkTexts(i)) : ChunkTexts(i)[k] = sec.body

\* C16 (amended): for every header line of a document followed by a body of
\* more than 50 characters, one chunk of the document is the title of the
\* header line, a line break and the body: only the '#' marker and the space
\* after it are cut off.
C16_ChunkIsTitleAndBody ==
    \A i \in IngestIds :
        Chunked(i) =>
            \A sec \in LongSections[ing[i].globbed[1].content] :
                \E k \in 1..Len(ChunkTexts(i)) :
                    ChunkTexts(i)[k] = << sec.title, "\n" >> \o sec.body

C16_Witness ==
    \E i \in IngestIds :
        /\ Chunked(i)
        /\ Cardinality(LongSections[ing[i].globbed[1].content]) = 2
        /\ Len(ChunkTexts(i)) = 2
        /\ ChunkTexts(i)[2] = << "B", "\n" >> \o Rep("b", MinChunkLength + 1)

\* The rows of the eligible chunks of every file, by corpus.
RowsByCorpus == [c \in Corpora |-> RowsOf(c)]

\* C17: when ingest() returns, the table holds the rows this run accumulated
\* and no other, the value returned is their number, and, the corpus being as
\* it was when the run was called, they are the rows of the eligible chunks of
\* every file of the corpus.
C17_TableIsThisRun ==
    \A i \in IngestIds :
        (ing[i].pc = "done" /\ ing[i].result = "ok") =>
            /\ table.exists
            /\ table.rows = ing[i].data
            /\ ing[i].count = Len(table.rows)
            /\ ing[i].edits = nEdits => table.rows = RowsByCorpus[ing[i].globbed]

\* The first run of the process has replaced the table of two rows it found
\* by one of four rows, from two files.
C17_Witness ==
    \E i \in IngestIds :
        /\ ing[i].pc = "done" /\ ing[i].result = "ok"
        /\ ing[i].dropped
        /\ ing[i].globbed = Large
        /\ ing[i].count = Len(RowsOf(Small)) + 2
        /\ Len(table.rows) = ing[i].count
        /\ nIngests = 1

LoopFailed(rec) == rec.result \in {"ReadError", "EmbedError"}

\* C18: when reading a file or embedding a chunk fails, ingest() ends with
\* that failure, having called neither dropTable nor createTable, and the
\* steps of its loop, the failing one included, leave the table and the
\* readiness flag as they are.
C18_LoopFailureLeavesIndex ==
    /\ [](\A i \in IngestIds :
            LoopFailed(ing[i]) =>
                /\ ing[i].pc = "done"
                /\ ~ing[i].dropIssued
                /\ ~ing[i].createIssued)
    /\ [][\A i \in IngestIds :
            (ing[i].pc \in {"glob", "embed"} /\ ing'[i] # ing[i]) =>
                (table' = table /\ ready' = ready)]_vars

\* The second file has gone when the loop comes to it, the rows of the first
\* being embedded already, while a table is there and the flag is set.
C18_Witness ==
    \E i \in IngestIds :
        /\ ing[i].result = "ReadError"
        /\ Len(ing[i].data) > 0
        /\ table.exists /\ ready

\* The call in slot i has reached the loop: it calls the embedder, or has.
InLoop(i) == ing[i].pc = "embed" \/ ing[i].data # << >> \/ ing[i].pending # << >>

\* C19: whenever search() or ingest() calls the embedder, the embedder field
\* holds the model of a load that has completed; the readiness flag is set
\* only with the model loaded, so that a search() called before fails with
\* the not-ready error, and no search() ends by calling an unset embedder.
C19_EmbedderLoadedBeforeUse ==
    /\ embedder <= loads
    /\ \A j \in SearchIds :
          /\ srch[j].embedded => (embedder # 0 /\ loads >= 1)
          /\ srch[j].result # "TypeError"
          /\ (srch[j].pc # "idle" /\ ~srch[j].embedded) => srch[j].result = "NotReady"
    /\ \A i \in IngestIds : InLoop(i) => (embedder # 0 /\ loads >= 1)
    /\ isReady => embedder # 0

\* A search() embeds its query while the load of initialize() is still
\* pending: the model is the one an ingest() loaded.
C19_Witness ==
    \E j \in SearchIds :
        /\ srch[j].embedded
        /\ initPc = "pipeline"
        /\ embedder # 0

\* C20: in one process the store is connected at most once and the model is
\* loaded at most once, whatever the interleaving of initialize() with the
\* ingest() calls, so that the handle and the model in use never change.
C20_ConnectedAndLoadedOnce ==
    /\ connects <= 1
    /\ loads <= 1
    /\ db <= 1
    /\ embedder <= 1

\* C21: the readiness flag starts false, no step sets it back to false, and
\* the only steps that set it are the last one of initialize(), the table
\* being listed, and the one of ingest() in which createTable resolves.
C21_ReadyIsMonotonic ==
    /\ ~ready
    /\ [][ready => ready']_vars
    /\ [][(~ready /\ ready') =>
            \/ initPc = "tableNames" /\ initPc' = "done" /\ table.exists
            \/ \E i \in IngestIds :
                  /\ ing[i].pc = "create"
                  /\ ing'[i].pc = "done" /\ ing'[i].result = "ok"
                  /\ table'.exists]_vars

\* The flag is still set after initialize() has failed and a later ingest()
\* has found nothing to ingest.
C21_Witness ==
    /\ ready
    /\ initPc = "failed"
    /\ \E i \in IngestIds : ing[i].pc = "done" /\ ing[i].result = "NoContent"

\* The first ingest() of the server and the script have both ended, on the
\* same docs/, the environment failing neither: on two stores that started
\* with the same table, in any interleaving, or on the one store of the
\* server, one after the other.
BothEnded(i) ==
    /\ nIngests = 1
    /\ ing[i].pc = "done" /\ ~ing[i].fault
    /\ script.pc = "done" /\ ~script.fault
    /\ script.shared => (~script.overlap /\ ~ing[i].withScript)

\* C22: on the same corpus, ingest() and the script, each run on its own,
\* leave the same table: the same (text, source) rows when the corpus has an
\* eligible chunk, and otherwise the table they found, ingest() failing with
\* the no-content error where the script warns and returns.
C22_ScriptMatchesIngest ==
    \A i \in IngestIds :
        BothEnded(i) =>
            /\ ing[i].result \in {"ok", "NoContent"}
            /\ (ing[i].result = "ok") <=> (script.result = "ok")
            /\ (ing[i].result = "NoContent") <=> (script.result = "warned")
            /\ table.exists <=> script.table.exists
            /\ RowSet(table.rows) = RowSet(script.table.rows)
            /\ Len(table.rows) = Len(script.table.rows)
            /\ ing[i].result = "NoContent" =>
                  (table = script.start /\ script.table = script.start
                     /\ ~script.dropIssued /\ ~script.createIssued)

\* On the store of the server, the script has replaced a table of two rows by
\* the four rows of two files, and ingest() has then replaced these by the
\* same four rows.
C22_Witness ==
    \E i \in IngestIds :
        /\ BothEnded(i)
        /\ script.shared
        /\ ing[i].result = "ok" /\ script.result = "ok"
        /\ script.start.exists
        /\ Len(script.table.rows) = Len(RowsByCorpus[Large])
        /\ ing[i].globbed = Large

\* The array after differs from the array before only in the fields of u of
\* the object at index.
OnlyNamedFieldsDiffer(before, after, index, u) ==
    /\ Len(after) = Len(before)
    /\ \A n \in 1..Len(after) :
          IF n = index
          THEN /\ DOMAIN after[n] = DOMAIN before[n] \cup DOMAIN u
               /\ \A f \in DOMAIN before[n] \ DOMAIN u : after[n][f] = before[n][f]
          ELSE after[n] = before[n]

\* C23: when update_entity_permissions has succeeded, the array Slingr stores
\* differs from the one it stored just before the PUT only in the fields named
\* in updates of the group found, whatever other update ran between the GET
\* and the PUT of the call; and a call that finds no group, or an empty
\* array, sends no PUT.
C23_UpdateChangesOnlyNamedFields ==
    \A k \in UpdateIds :
        /\ (perms.calls[k].pc = "done" /\ perms.calls[k].result = "ok") =>
              OnlyNamedFieldsDiffer(perms.calls[k].before, perms.calls[k].after,
                                    perms.calls[k].index, perms.calls[k].updates)
        /\ perms.calls[k].result \in {"EmptyPermissions", "GroupNotFound"} =>
              ~perms.calls[k].putSent


=============================================================================
